---- MODULE Spec2Model ----
(***************************************************************************)
(* Price monitor: the monitoring engine of Kalpesh1Sharma/Price_monitor_   *)
(* alert.  The repository holds four variants of the engine, each a        *)
(* program of its own:                                                     *)
(*   app/dashboard.py    Streamlit dashboard with a background poller      *)
(*   streamlit_app.py    Streamlit "cloud" tracker with a poller           *)
(*   tracker_worker.py   sequential worker loop (check_once)               *)
(*   scripts/tracker.py  Flask API with a thread pool and DB_LOCK          *)
(* The variable app says which program runs; every action belongs to one   *)
(* program.  Time is counted in units of the program's alert cooldown.     *)
(***************************************************************************)
EXTENDS Integers, Sequences, FiniteSets, Bags, TLC

(* ------------------------------ bounds -------------------------------- *)
\* items ever added (uuid4 ids are modelled as 1, 2, ...)
MaxItems == 1
\* clock ticks after the start of the run
MaxTicks == 2
\* pipeline runs (fetch attempts) per behaviour
MaxRuns == 2
\* items added through /track of tracker.py
MaxTracked == 2
\* items already in DB_FILE when a program starts
MaxStored == 2

(* ------------------------- program constants -------------------------- *)
\* app/dashboard.py:23: the cooldown, one unit of time
ALERT_COOLDOWN == 1
\* the clock when the program starts: time.time() is far past one cooldown
Epoch == ALERT_COOLDOWN + 1

(* --------------------------- Python values ---------------------------- *)
\* Optional[float]: None is <<>>, a float v is <<v>>
None == <<>>
Some(v) == <<v>>
IsNone(p) == p = <<>>
Val(p) == p[1]

\* user inputs of the add form
URLs == {"u"}
Names == {""}
Targets == {0, 11}

\* what a fetch of a product page can bring back: the kind of the outcome,
\* the page title ("" when none) and the numeric tokens of the price element
Pages ==
    { [kind |-> "timeout", title |-> "", tokens |-> <<>>],
      [kind |-> "http",    title |-> "", tokens |-> <<>>],
      [kind |-> "ok",      title |-> "", tokens |-> <<>>],
      [kind |-> "ok",      title |-> "", tokens |-> <<0>>],
      [kind |-> "ok",      title |-> "", tokens |-> <<5>>],
      [kind |-> "ok",      title |-> "T", tokens |-> <<5, 11>>],
      [kind |-> "ok",      title |-> "", tokens |-> <<12>>] }

\* no page: the programs other than tracker.py draw a page per request
NoPage == [kind |-> "", title |-> "", tokens |-> <<>>]

\* what the Telegram transport can do with one message
NotifyOutcomes == {"ok", "rejected", "exception", "missing"}

VARIABLES
    app,        \* the program that runs
    clock,      \* time.time()
    nextId,     \* the next fresh item id
    items,      \* table items: id -> row
    prices,     \* table prices, in insertion (autoincrement id) order
    sent,       \* messages the Telegram API accepted: <<[item, at]>>
    runs,       \* the threads add_item started that have not run yet
    pollRows,   \* the rows of the poller's snapshot still to process
    nruns,      \* fetch attempts started so far
    queue,      \* tracker.py: the work queue of the executor
    active,     \* tracker.py: the fetch_price calls running on pool threads
    dbLock,     \* tracker.py: DB_LOCK is held
    handler,    \* tracker.py: the /track request inside db_write, if any
    web,        \* tracker.py: the page the tracked site serves
    sched,      \* the scheduler loop: where it is, the stop signal, the
                \* start, length and following wait of its last round, the
                \* flag that says it was started and the threads started
                \* for it
    reply,      \* the answer to the last interactive request
    dbfile,     \* DB_FILE on disk: whether it is there and readable, its
                \* journal mode and the columns of its tables (the rows of
                \* the tables are items and prices)
    call,       \* history: the last call of a function that is looked at on
                \* its own, with its arguments and what it returned
    lastRun     \* history: the last pipeline run, with the row's last_alert_at
                \* before it (stored), whether the row existed (here), whether
                \* the guard let the message be sent (fire) and what the
                \* transport did with it, "ok" when it was not asked
                \* (transport)

pool == <<queue, active, dbLock, handler, web>>

vars == <<app, clock, nextId, items, prices, sent, runs, pollRows, nruns, pool,
          sched, reply, dbfile, call, lastRun>>

\* no /track request is inside db_write
NoHandler == [url |-> "", name |-> ""]

\* lastRun before any run
NoRun ==
    [item |-> 0, price |-> None, target |-> 0, here |-> FALSE, stored |-> 0,
     now |-> 0, fire |-> FALSE, transport |-> "ok"]

\* the scheduler before its first round
NoSched ==
    [pc |-> "select", stop |-> FALSE, start |-> Epoch, elapsed |-> 0, wait |-> 0,
     started |-> FALSE, threads |-> 0]

\* no request answered yet
NoReply == [op |-> "", id |-> 0, status |-> 0, seq |-> 0]

\* no call yet
NoCall == [fn |-> "", arg |-> << >>, out |-> << >>]

\* the columns of table items besides id, as dashboard.py, streamlit_app.py
\* and tracker_worker.py create it
ItemColumns == {"name", "url", "target_price", "last_alert_at"}

\* the columns of table prices besides id
PriceColumns == {"item", "checked_at", "price"}

\* DB_FILE after init_db has created it
ReadyFile ==
    [state |-> "ok", journal |-> "wal",
     schema |-> [t \in {"items", "prices"} |->
                    IF t = "items" THEN ItemColumns ELSE PriceColumns]]

InitStore ==
    /\ clock = Epoch
    /\ nextId = 1
    /\ items = << >>
    /\ prices = << >>
    /\ sent = << >>
    /\ runs = {}
    /\ pollRows = << >>
    /\ nruns = 0
    /\ queue = << >>
    /\ active = EmptyBag
    /\ dbLock = FALSE
    /\ handler = NoHandler
    /\ sched = NoSched
    /\ reply = NoReply
    /\ dbfile = ReadyFile
    /\ call = NoCall
    /\ lastRun = NoRun

\* table items as an earlier run of the program left it, n rows
StoredItems(n, target) ==
    [i \in 1..n |-> [name |-> "u", url |-> "u", target_price |-> target,
                     last_alert_at |-> 0]]

\* init_db on an existing file: CREATE TABLE IF NOT EXISTS keeps the rows
InitRestart(n, target) ==
    /\ clock = Epoch
    /\ nextId = n + 1
    /\ items = StoredItems(n, target)
    /\ prices = << >>
    /\ sent = << >>
    /\ runs = {}
    /\ pollRows = << >>
    /\ nruns = 0
    /\ queue = << >>
    /\ active = EmptyBag
    /\ dbLock = FALSE
    /\ handler = NoHandler
    /\ sched = NoSched
    /\ reply = NoReply
    /\ dbfile = ReadyFile
    /\ call = NoCall
    /\ lastRun = NoRun

\* the values time.time() can return from now on: time passes during a
\* request, and the clock is read when the request has returned
Later == clock..(Epoch + MaxTicks)

(* ------------------------------ helpers ------------------------------- *)
RECURSIVE SeqOfSet(_)
\* the ids of a set in ascending order (rowid order)
SeqOfSet(S) ==
    IF S = {} THEN << >>
    ELSE LET m == CHOOSE x \in S : \A y \in S : x <= y
         IN <<m>> \o SeqOfSet(S \ {m})

Restrict(f, S) == [x \in S |-> f[x]]

\* SELECT ... FROM items: the rows in rowid order, as the poller keeps them
SelectItems ==
    [k \in 1..Cardinality(DOMAIN items) |->
        LET id == SeqOfSet(DOMAIN items)[k]
        IN [id |-> id, target_price |-> items[id].target_price,
            last_alert_at |-> items[id].last_alert_at]]

\* INSERT INTO items: a new row with the next id
InsertItem(name, url, target) ==
    [i \in DOMAIN items \cup {nextId} |->
        IF i = nextId
        THEN [name |-> name, url |-> url, target_price |-> target,
              last_alert_at |-> 0]
        ELSE items[i]]


(* ============================ app/dashboard.py ======================== *)

\* re.findall on a text whose numbers are tokens: every match cleans to a
\* number that float() parses
Matches(tokens) == [k \in DOMAIN tokens |-> Some(tokens[k])]

RECURSIVE extract_price(_)
\* for m in matches: a match is None when nothing of it is left after the
\* cleaning (continue), else the float it parses to; the first that is > 10
extract_price(matches) ==
    IF matches = << >> THEN None
    ELSE LET val == Head(matches)
         IN IF ~IsNone(val) /\ Val(val) > 10 THEN val
            ELSE extract_price(Tail(matches))

\* (title, price, error)
fetch_price_and_title(page) ==
    IF page.kind # "ok"
    THEN [title |-> "", price |-> None, error |-> TRUE]
    ELSE [title |-> page.title,
          price |-> IF page.tokens = << >> THEN None
                    ELSE extract_price(Matches(page.tokens)),
          error |-> FALSE]

\* send_telegram_alert: ok only on status 200 with ok in the body
send_telegram_alert(outcome) == outcome = "ok"

\* the row record_price inserts
record_price(item_id, price, at) ==
    [item |-> item_id, checked_at |-> at,
     price |-> IF IsNone(price) THEN -1 ELSE Val(price)]

\* an alert guard that wants the price strictly below the target
AlertDueStrict(price, target_price, last_alert_at, now) ==
    /\ ~IsNone(price)
    /\ Val(price) > 0
    /\ target_price > 0
    /\ Val(price) < target_price
    /\ now - last_alert_at > ALERT_COOLDOWN

\* the alert guard of fetch_and_analyze
AlertDue(price, target_price, last_alert_at, now) ==
    /\ ~IsNone(price)
    /\ Val(price) > 0
    /\ target_price # 0
    /\ target_price > 0
    /\ Val(price) <= target_price
    /\ now - last_alert_at > ALERT_COOLDOWN

\* fetch_and_analyze(item_id, url, name, target_price, last_alert_at), the
\* request answered with page and the transport answering outcome
fetch_and_analyze(item_id, target_price, last_alert_at, page, now, outcome) ==
    LET res == fetch_price_and_title(page)
        fire == AlertDue(res.price, target_price, last_alert_at, now)
        here == item_id \in DOMAIN items
        named == IF res.title # "" /\ here
                 THEN [items EXCEPT ![item_id].name = res.title]
                 ELSE items
        ok == fire /\ send_telegram_alert(outcome)
    IN /\ fire \/ outcome = "ok"   \* the transport is asked only on fire
       /\ prices' = Append(prices, record_price(item_id, res.price, now))
       /\ items' = IF ok /\ here
                   THEN [named EXCEPT ![item_id].last_alert_at = now]
                   ELSE named
       /\ sent' = IF fire /\ outcome = "ok"
                  THEN Append(sent, [item |-> item_id, at |-> now])
                  ELSE sent
       /\ lastRun' = [item |-> item_id, price |-> res.price,
                      target |-> target_price,
                      here |-> here,
                      stored |-> IF here THEN items[item_id].last_alert_at
                                 ELSE 0,
                      now |-> now, fire |-> fire, transport |-> outcome]
       /\ nruns' = nruns + 1
       /\ clock' = now

\* add_item: insert the row, start the initial fetch in a thread
add_item(url, name, target) ==
    /\ app = "dashboard"
    /\ url # ""
    /\ nextId <= MaxItems
    /\ nruns + Cardinality(runs) < MaxRuns
    /\ LET final_name == IF name # "" THEN name ELSE url
       IN /\ items' = InsertItem(final_name, url, target)
          /\ runs' = runs \cup
               {[item |-> nextId, target |-> target, last_alert_at |-> 0]}
    /\ nextId' = nextId + 1
    /\ UNCHANGED <<pool, sched, reply, app, dbfile, call, clock, prices, sent, pollRows, nruns, lastRun>>

\* the thread add_item started runs fetch_and_analyze
ThreadRun(r) ==
    /\ app = "dashboard"
    /\ r \in runs
    /\ runs' = runs \ {r}
    /\ \E page \in Pages, now \in Later, outcome \in NotifyOutcomes :
         fetch_and_analyze(r.item, r.target, r.last_alert_at, page, now, outcome)
    /\ UNCHANGED <<pool, sched, reply, app, dbfile, call, nextId, pollRows>>

\* main, the Check Now button of a row: fetch_and_analyze(..., target, 0)
CheckNow(id) ==
    /\ app = "dashboard"
    /\ id \in DOMAIN items
    /\ nruns + Cardinality(runs) < MaxRuns
    /\ \E page \in Pages, now \in Later, outcome \in NotifyOutcomes :
         fetch_and_analyze(id, items[id].target_price, 0, page, now, outcome)
    /\ UNCHANGED <<pool, sched, reply, app, dbfile, call, nextId, runs, pollRows>>

\* main, the Delete button of a row
Delete(id) ==
    /\ app = "dashboard"
    /\ id \in DOMAIN items
    /\ items' = Restrict(items, DOMAIN items \ {id})
    /\ prices' = SelectSeq(prices, LAMBDA p : p.item # id)
    /\ UNCHANGED <<pool, sched, reply, app, dbfile, call, clock, nextId, sent, runs, pollRows, nruns, lastRun>>

\* poll_loop: read the rows once per round
PollSelect ==
    /\ app = "dashboard"
    /\ pollRows = << >>
    /\ DOMAIN items # {}
    /\ pollRows' = SelectItems
    /\ UNCHANGED <<pool, sched, reply, app, dbfile, call, clock, nextId, items, prices, sent, runs, nruns, lastRun>>

\* poll_loop: fetch_and_analyze for the next row of the snapshot
PollNext ==
    /\ app = "dashboard"
    /\ pollRows # << >>
    /\ nruns + Cardinality(runs) < MaxRuns
    /\ \E page \in Pages, now \in Later, outcome \in NotifyOutcomes :
         LET r == Head(pollRows)
         IN fetch_and_analyze(r.id, r.target_price, r.last_alert_at, page, now, outcome)
    /\ pollRows' = Tail(pollRows)
    /\ UNCHANGED <<pool, sched, reply, app, dbfile, call, nextId, runs>>

InitDashboard == app = "dashboard" /\ InitStore /\ web = NoPage

NextDashboard ==
    \/ \E u \in URLs, nm \in Names, t \in Targets : add_item(u, nm, t)
    \/ \E id \in 1..MaxItems : CheckNow(id)
    \/ \E id \in 1..MaxItems : Delete(id)
    \/ PollSelect
    \/ PollNext
    \/ \E r \in runs : ThreadRun(r)

SpecDashboard == InitDashboard /\ [][NextDashboard]_vars

(* ============================ streamlit_app.py ======================== *)

\* streamlit_app.py:16: the cooldown, one unit of time
ALERT_COOLDOWN_ST == 1

\* fetch_price_data: price = float(matches[0]...), None without a match or
\* when the request fails
StExtracted(page) ==
    IF page.kind # "ok" \/ page.tokens = << >> THEN None
    ELSE Some(Head(page.tokens))

\* fetch_price_data: `if price: return price, "Success"`, else "Parse Fail"
fetch_price_data(page) ==
    LET price == StExtracted(page)
    IN IF ~IsNone(price) /\ Val(price) # 0 THEN price ELSE None

\* check_item_logic: the price column of the INSERT, `price if price else -1`
StStored(price) ==
    IF ~IsNone(price) /\ Val(price) # 0 THEN Val(price) ELSE -1

\* main: lbl is the price `if price and price > 0`, else the status text
StShown(stored) == IF stored # 0 /\ stored > 0 THEN Some(stored) ELSE None

\* send_telegram_message: (True, "Sent") whatever the response status
send_telegram_message(outcome) == outcome \in {"ok", "rejected"}

\* check_item_logic(item_id, name, url, target_price, last_alert)
check_item_logic(item_id, target_price, last_alert, page, now, outcome) ==
    LET price == fetch_price_data(page)
        fire == /\ ~IsNone(price)
                /\ Val(price) > 0
                /\ target_price > 0
                /\ Val(price) <= target_price
                /\ now - last_alert > ALERT_COOLDOWN_ST
        here == item_id \in DOMAIN items
    IN /\ fire \/ outcome = "ok"   \* the transport is asked only on fire
       /\ prices' = Append(prices, [item |-> item_id, checked_at |-> now,
                                    price |-> StStored(price)])
       /\ items' = IF fire /\ here
                   THEN [items EXCEPT ![item_id].last_alert_at = now]
                   ELSE items
       /\ sent' = IF fire /\ outcome = "ok"
                  THEN Append(sent, [item |-> item_id, at |-> now])
                  ELSE sent
       /\ lastRun' = [item |-> item_id, price |-> price,
                      target |-> target_price,
                      here |-> here,
                      stored |-> IF here THEN items[item_id].last_alert_at
                                 ELSE 0,
                      now |-> now, fire |-> fire, transport |-> outcome]
       /\ nruns' = nruns + 1
       /\ clock' = now

\* main, the Track form: insert the row (no fetch)
StTrack(url, target) ==
    /\ app = "streamlit"
    /\ url # ""
    /\ nextId <= MaxItems
    /\ items' = InsertItem("New Item", url, target)
    /\ nextId' = nextId + 1
    /\ UNCHANGED <<pool, sched, reply, app, dbfile, call, clock, prices, sent, runs, pollRows, nruns, lastRun>>

\* main, the Check Now button: check_item_logic(..., 0)
StCheckNow(id) ==
    /\ app = "streamlit"
    /\ id \in DOMAIN items
    /\ nruns < MaxRuns
    /\ \E page \in Pages, now \in Later, outcome \in NotifyOutcomes :
         check_item_logic(id, items[id].target_price, 0, page, now, outcome)
    /\ UNCHANGED <<pool, sched, reply, app, dbfile, call, nextId, runs, pollRows>>

\* main, the Delete button: DELETE FROM items only
StDelete(id) ==
    /\ app = "streamlit"
    /\ id \in DOMAIN items
    /\ items' = Restrict(items, DOMAIN items \ {id})
    /\ UNCHANGED <<pool, sched, reply, app, dbfile, call, clock, nextId, prices, sent, runs, pollRows, nruns, lastRun>>

\* start_poller.run: read the rows once per round
StPollSelect ==
    /\ app = "streamlit"
    /\ pollRows = << >>
    /\ DOMAIN items # {}
    /\ pollRows' = SelectItems
    /\ UNCHANGED <<pool, sched, reply, app, dbfile, call, clock, nextId, items, prices, sent, runs, nruns, lastRun>>

\* start_poller.run: check_item_logic for the next row of the snapshot
StPollNext ==
    /\ app = "streamlit"
    /\ pollRows # << >>
    /\ nruns < MaxRuns
    /\ \E page \in Pages, now \in Later, outcome \in NotifyOutcomes :
         LET r == Head(pollRows)
         IN check_item_logic(r.id, r.target_price, r.last_alert_at, page, now,
                             outcome)
    /\ pollRows' = Tail(pollRows)
    /\ UNCHANGED <<pool, sched, reply, app, dbfile, call, nextId, runs>>

InitStreamlit == app = "streamlit" /\ InitStore /\ web = NoPage

NextStreamlit ==
    \/ \E u \in URLs, t \in Targets : StTrack(u, t)
    \/ \E id \in 1..MaxItems : StCheckNow(id)
    \/ \E id \in 1..MaxItems : StDelete(id)
    \/ StPollSelect
    \/ StPollNext

SpecStreamlit == InitStreamlit /\ [][NextStreamlit]_vars

(* ============================ tracker_worker.py ======================= *)

\* tracker_worker.py:10: the cooldown, one unit of time
COOLDOWN == 1

\* extract_price of the worker: the first rupee amount of the page
WkExtractPrice(html) ==
    IF html = << >> THEN None ELSE Some(Head(html))

\* the rows of table items come from the dashboard that shares DB_FILE
WkItemAdded(url, target) ==
    /\ app = "worker"
    /\ nextId <= MaxItems
    /\ items' = InsertItem(url, url, target)
    /\ nextId' = nextId + 1
    /\ UNCHANGED <<pool, sched, reply, app, dbfile, call, clock, prices, sent, runs, pollRows, nruns, lastRun>>

\* check_once: SELECT * FROM items
WkSelect ==
    /\ app = "worker"
    /\ pollRows = << >>
    /\ DOMAIN items # {}
    /\ pollRows' = SelectItems
    /\ UNCHANGED <<pool, sched, reply, app, dbfile, call, clock, nextId, items, prices, sent, runs, nruns, lastRun>>

\* check_once: the body of the loop for the next row
check_once ==
    /\ app = "worker"
    /\ pollRows # << >>
    /\ nruns < MaxRuns
    /\ \E page \in Pages, now \in Later, outcome \in NotifyOutcomes :
         LET it == Head(pollRows)
             failed == page.kind # "ok"
             price == IF failed THEN None ELSE WkExtractPrice(page.tokens)
             fire == /\ ~failed
                     /\ ~IsNone(price)
                     /\ Val(price) <= it.target_price
                     /\ now - it.last_alert_at > COOLDOWN
             here == it.id \in DOMAIN items
         IN /\ fire \/ outcome = "ok"   \* the transport is asked only on fire
            /\ prices' = IF failed THEN prices
                         ELSE Append(prices,
                                [item |-> it.id, checked_at |-> now,
                                 price |-> IF IsNone(price) THEN -1
                                           ELSE Val(price)])
            /\ items' = IF fire /\ here
                        THEN [items EXCEPT ![it.id].last_alert_at = now]
                        ELSE items
            /\ sent' = IF fire /\ outcome = "ok"
                       THEN Append(sent, [item |-> it.id, at |-> now])
                       ELSE sent
            /\ lastRun' = [item |-> it.id, price |-> price,
                           target |-> it.target_price,
                           here |-> here,
                           stored |-> IF here THEN items[it.id].last_alert_at
                                      ELSE 0,
                           now |-> now, fire |-> fire, transport |-> outcome]
            /\ clock' = now
    /\ nruns' = nruns + 1
    /\ pollRows' = Tail(pollRows)
    /\ UNCHANGED <<pool, sched, reply, app, dbfile, call, nextId, runs>>

InitWorker == app = "worker" /\ InitStore /\ web = NoPage

NextWorker ==
    \/ \E u \in URLs, t \in Targets : WkItemAdded(u, t)
    \/ WkSelect
    \/ check_once

SpecWorker == InitWorker /\ [][NextWorker]_vars

(* ========= tracker_worker.py, the loop of main, started on an
   existing DB_FILE ===================================================== *)

\* tracker_worker.py:9: the delay between rounds, set to the length of the
\* cooldown (both come from the environment)
POLL_DELAY == 1

\* an exception that nothing catches ends the thread
Uncaught(resume) == "exit"

\* except Exception as e: print(...): the loop goes on at resume
Caught(resume) == resume

\* time.sleep(d) from t, on a clock that stops at its last tick
Sleep(t, d) == IF t + d > Epoch + MaxTicks THEN Epoch + MaxTicks ELSE t + d

\* main: check_once() is called; db_conn() and the SELECT, which binds the
\* rows or raises and returns
WkLoopSelect ==
    /\ app = "worker"
    /\ sched.pc = "select"
    /\ \/ /\ pollRows' = SelectItems
          /\ sched' = [sched EXCEPT !.pc = "items", !.start = clock]
       \/ /\ pollRows' = << >>
          /\ sched' = [sched EXCEPT !.pc = Caught("sleep"), !.start = clock,
                                    !.elapsed = 0]
    /\ UNCHANGED <<pool, reply, app, dbfile, call, clock, nextId, items, prices, sent, runs,
                   nruns, lastRun>>

\* check_once: the body of the loop for the next row
WkLoopItem ==
    /\ sched.pc = "items"
    /\ check_once

\* check_once: requests.get raises or the status is not 200, once the site
\* has stopped answering
WkLoopFail ==
    /\ app = "worker"
    /\ sched.pc = "items"
    /\ pollRows # << >>
    /\ nruns >= MaxRuns
    /\ pollRows' = Tail(pollRows)
    /\ clock' \in Later
    /\ sched' = [sched EXCEPT !.pc = Caught("items")]
    /\ UNCHANGED <<pool, reply, app, dbfile, call, nextId, items, prices, sent, runs, nruns,
                   lastRun>>

\* check_once: the loop is over, conn.close(), return
WkLoopDone ==
    /\ app = "worker"
    /\ sched.pc = "items"
    /\ pollRows = << >>
    /\ sched' = [sched EXCEPT !.pc = "sleep", !.elapsed = clock - sched.start]
    /\ UNCHANGED <<pool, reply, app, dbfile, call, clock, nextId, items, prices, sent, runs,
                   pollRows, nruns, lastRun>>

\* main: time.sleep(POLL_DELAY), and the next turn of while True
WkLoopSleep ==
    /\ app = "worker"
    /\ sched.pc = "sleep"
    /\ clock' = Sleep(clock, POLL_DELAY)
    /\ sched' = [sched EXCEPT !.pc = "select", !.wait = POLL_DELAY]
    /\ UNCHANGED <<pool, reply, app, dbfile, call, nextId, items, prices, sent, runs,
                   pollRows, nruns, lastRun>>

InitWorkerLoop ==
    /\ app = "worker"
    /\ web = NoPage
    /\ \E n \in 1..MaxStored, target \in Targets : InitRestart(n, target)

NextWorkerLoop ==
    \/ WkLoopSelect
    \/ WkLoopItem
    \/ WkLoopFail
    \/ WkLoopDone
    \/ WkLoopSleep

\* main is the only thread and each of its statements returns: the requests
\* have a timeout and the sleep is finite
SpecWorkerLoop ==
    InitWorkerLoop /\ [][NextWorkerLoop]_vars /\ WF_vars(NextWorkerLoop)

(* ============================ scripts/tracker.py ====================== *)

\* tracker.py:17
MAX_WORKERS == 5

\* submissions to the executor in a behaviour: enough to fill the pool and
\* leave one waiting
MaxTasks == MAX_WORKERS + 1

\* the pages the tracker's requests bring back
TrackerPages == {p \in Pages : p.tokens \in {<< >>, <<12>>}}

RECURSIVE extract_price_from_text(_)
\* extract_price_from_text: for raw in matches, the first match that parses
extract_price_from_text(matches) ==
    IF matches = << >> THEN None
    ELSE IF ~IsNone(Head(matches)) THEN Head(matches)
    ELSE extract_price_from_text(Tail(matches))

\* fetch_price: the price column of the INSERT
TrStored(price) == IF IsNone(price) THEN -1 ELSE Val(price)

\* fetches submitted so far: done, running, queued or about to be queued
Submitted ==
    nruns + BagCardinality(active) + Len(queue)
        + (IF handler = NoHandler THEN 0 ELSE 1)

\* a db_write that does not wait for DB_LOCK
DbLockIgnored == TRUE

\* with DB_LOCK: the lock can be taken
DbLockFree == ~dbLock

\* SQLite's own write lock is held by another connection: execute would
\* raise "database is locked" after its timeout
SqliteBusy ==
    \/ handler # NoHandler
    \/ \E t \in BagToSet(active) : t.pc = "write"

\* an executor that starts a thread for every work item
PoolUnbounded == TRUE

\* ThreadPoolExecutor: a thread of the pool is free or can be started
PoolHasFreeWorker == BagCardinality(active) < MAX_WORKERS

\* executor.submit(fetch_price, item_id, url)
Submit(q, item_id, url) == Append(q, [item |-> item_id, url |-> url])

\* track: db_write('INSERT INTO items ...') takes DB_LOCK and executes
track(url, name) ==
    /\ app = "tracker"
    /\ url # ""
    /\ handler = NoHandler
    /\ nextId <= MaxTracked
    /\ Submitted < MaxTasks
    /\ DbLockFree
    /\ IF SqliteBusy
       THEN UNCHANGED <<handler, dbLock>>
       ELSE /\ handler' = [url |-> url, name |-> IF name = "" THEN url ELSE name]
            /\ dbLock' = TRUE
    /\ UNCHANGED <<app, dbfile, call, clock, nextId, items, prices, sent, runs, pollRows,
                   nruns, queue, active, web, sched, reply, lastRun>>

\* track: the insert commits, DB_LOCK is released, the first fetch is submitted
TrackCommit ==
    /\ app = "tracker"
    /\ handler # NoHandler
    /\ items' = InsertItem(handler.name, handler.url, 0)
    /\ nextId' = nextId + 1
    /\ queue' = Submit(queue, nextId, handler.url)
    /\ dbLock' = FALSE
    /\ handler' = NoHandler
    /\ UNCHANGED <<app, dbfile, call, clock, prices, sent, runs, pollRows, nruns, active,
                   web, sched, reply, lastRun>>

\* trigger_fetch: POST /fetch/<item_id>
trigger_fetch(item_id) ==
    /\ app = "tracker"
    /\ item_id \in DOMAIN items
    /\ Submitted < MaxTasks
    /\ queue' = Submit(queue, item_id, items[item_id].url)
    /\ UNCHANGED <<app, dbfile, call, clock, nextId, items, prices, sent, runs, pollRows,
                   nruns, active, dbLock, handler, web, sched, reply, lastRun>>

\* a round that submits the first row of the snapshot only
SubmitFirst(q, rows) ==
    IF rows = << >> THEN q
    ELSE Submit(q, Head(rows).id, items[Head(rows).id].url)

RECURSIVE SubmitAll(_, _)
\* for row in items: executor.submit(fetch_price, row['id'], row['url'])
SubmitAll(q, rows) ==
    IF rows = << >> THEN q
    ELSE SubmitAll(Submit(q, Head(rows).id, items[Head(rows).id].url),
                   Tail(rows))

\* poller_loop: one round, and the wait for the next, during which time passes
poller_loop ==
    /\ app = "tracker"
    /\ ~sched.stop
    /\ DOMAIN items # {}
    /\ Submitted + Cardinality(DOMAIN items) <= MaxTasks
    /\ queue' = SubmitAll(queue, SelectItems)
    /\ clock' \in Later
    /\ UNCHANGED <<app, dbfile, call, nextId, items, prices, sent, runs, pollRows,
                   nruns, active, dbLock, handler, web, sched, reply, lastRun>>

\* a pool thread takes the next work item: fetch_price starts, ts = time.time()
PoolStart ==
    /\ app = "tracker"
    /\ queue # << >>
    /\ PoolHasFreeWorker
    /\ active' = active (+) SetToBag({[item |-> Head(queue).item, ts |-> clock,
                                       pc |-> "get", price |-> 0]})
    /\ queue' = Tail(queue)
    /\ UNCHANGED <<app, dbfile, call, clock, nextId, items, prices, sent, runs, pollRows,
                   nruns, dbLock, handler, web, sched, reply, lastRun>>

\* t in the bag replaced by u
Replace(bag, t, u) == (bag (-) SetToBag({t})) (+) SetToBag({u})

\* fetch_price: the request is answered (or the first db_write has raised) and
\* db_write takes DB_LOCK and executes the insert
DbBegin(t) ==
    /\ app = "tracker"
    /\ BagIn(t, active)
    /\ t.pc \in {"get", "except"}
    /\ DbLockFree
    /\ LET price == IF web.kind # "ok" \/ t.pc = "except" THEN None
                    ELSE extract_price_from_text(Matches(web.tokens))
           row == TrStored(price)
       IN IF SqliteBusy
            THEN \* "database is locked": the with block releases DB_LOCK
                 /\ dbLock' = dbLock
                 /\ IF t.pc = "get"
                    THEN /\ active' = Replace(active, t, [t EXCEPT !.pc = "except"])
                         /\ nruns' = nruns
                    ELSE /\ active' = active (-) SetToBag({t})
                         /\ nruns' = nruns + 1
            ELSE /\ dbLock' = TRUE
                 /\ active' = Replace(active, t,
                                      [t EXCEPT !.pc = "write", !.price = row])
                 /\ nruns' = nruns
    /\ UNCHANGED <<app, dbfile, call, clock, nextId, items, prices, sent, runs, pollRows,
                   queue, handler, web, sched, reply, lastRun>>

\* db_write: commit, close, release DB_LOCK; fetch_price returns
DbCommit(t) ==
    /\ app = "tracker"
    /\ BagIn(t, active)
    /\ t.pc = "write"
    /\ prices' = Append(prices, [item |-> t.item, checked_at |-> t.ts,
                                 price |-> t.price])
    /\ dbLock' = FALSE
    /\ active' = active (-) SetToBag({t})
    /\ nruns' = nruns + 1
    /\ UNCHANGED <<app, dbfile, call, clock, nextId, items, sent, runs, pollRows, queue,
                   handler, web, sched, reply, lastRun>>

\* the tracked site serves one page throughout a behaviour
InitTracker == app = "tracker" /\ InitStore /\ web \in TrackerPages

NextTracker ==
    \/ \E u \in URLs, nm \in Names : track(u, nm)
    \/ TrackCommit
    \/ \E id \in 1..MaxTracked : trigger_fetch(id)
    \/ poller_loop
    \/ PoolStart
    \/ \E t \in BagToSet(active) : DbBegin(t)
    \/ \E t \in BagToSet(active) : DbCommit(t)

SpecTracker == InitTracker /\ [][NextTracker]_vars

(* ============ scripts/tracker.py started on an existing DB_FILE ======= *)

\* __main__: KeyboardInterrupt; poller_stop.set(); executor.shutdown(wait=False),
\* which lets the work items already queued run
Shutdown ==
    /\ app = "tracker"
    /\ ~sched.stop
    /\ sched' = [sched EXCEPT !.stop = TRUE]
    /\ UNCHANGED <<app, dbfile, call, clock, nextId, items, prices, sent, runs, pollRows,
                   nruns, pool, reply, lastRun>>

InitTrackerPoller ==
    /\ app = "tracker"
    /\ web \in TrackerPages
    /\ \E n \in 1..MaxStored : InitRestart(n, 0)

NextTrackerPoller ==
    \/ poller_loop
    \/ PoolStart
    \/ \E t \in BagToSet(active) : DbBegin(t)
    \/ \E t \in BagToSet(active) : DbCommit(t)
    \/ Shutdown

SpecTrackerPoller == InitTrackerPoller /\ [][NextTrackerPoller]_vars

(* ============ scripts/tracker.py, the requests and their answers ====== *)

\* the first sample of every item
OldestIds ==
    {k \in 1..Len(prices) :
        \A j \in 1..Len(prices) : prices[j].item = prices[k].item => k <= j}

\* list_prices: SELECT MAX(id) FROM prices GROUP BY item_id
LatestIds ==
    {k \in 1..Len(prices) :
        \A j \in 1..Len(prices) : prices[j].item = prices[k].item => j <= k}

\* list_prices: the rows the LEFT JOIN gives for the row id of items
JoinRows(id) ==
    LET match == SeqOfSet({k \in LatestIds : prices[k].item = id})
    IN IF match = << >>
       THEN <<[id |-> id, last_price |-> None, last_checked |-> None]>>
       ELSE [x \in 1..Len(match) |->
               [id |-> id, last_price |-> Some(prices[match[x]].price),
                last_checked |-> Some(prices[match[x]].checked_at)]]

RECURSIVE JoinAll(_)
\* list_prices: items i LEFT JOIN (...) p ON i.id = p.item_id
JoinAll(ids) ==
    IF ids = << >> THEN << >>
    ELSE JoinRows(Head(ids)) \o JoinAll(Tail(ids))

\* GET /prices, the rows of the answer
list_prices == JoinAll(SeqOfSet(DOMAIN items))

\* get_price_history: ORDER BY checked_at DESC puts first a sample of item_id
\* with the greatest checked_at; among equal checked_at SQLite may put any
\* first, so these are the row ids the first row of the answer can have
HistoryFirst(item_id) ==
    {k \in 1..Len(prices) :
        /\ prices[k].item = item_id
        /\ \A j \in 1..Len(prices) :
              prices[j].item = item_id
                  => prices[j].checked_at <= prices[k].checked_at}

\* get_price_history: "price": None if r['price'] == -1.0 else r['price']
HistoryPrice(stored) == IF stored = -1 THEN None ELSE Some(stored)

\* fetch_price calls for item_id that run on pool threads
Running(item_id) ==
    BagCardinality([t \in {u \in BagToSet(active) : u.item = item_id}
                       |-> active[t]])

\* the "url" of the JSON body of POST /track: missing, empty or given
ApiUrls == {None, Some(""), Some("u")}

\* a /track that takes any body
UrlNeverMissing(url) == FALSE

\* track: `if not url`, url = data.get("url")
MissingUrl(url) == IsNone(url) \/ Val(url) = ""

\* a lookup that finds a url for any id
db_read_any(item_id) == Some("u")

\* trigger_fetch: db_read('SELECT url FROM items WHERE id=?', one=True)
db_read_url(item_id) ==
    IF item_id \in DOMAIN items THEN Some(items[item_id].url) ELSE None

\* the answer to a request: jsonify(...), status
Answer(op, id, status) ==
    [op |-> op, id |-> id, status |-> status, seq |-> 1 - reply.seq]

\* POST /track, the whole handler
ApiTrack(url) ==
    /\ app = "tracker"
    /\ IF MissingUrl(url)
       THEN /\ reply' = Answer("track", 0, 400)
            /\ UNCHANGED <<nextId, items, queue>>
       ELSE /\ nextId <= MaxTracked
            /\ Submitted < MaxTasks
            /\ DbLockFree
            /\ LET u == IF IsNone(url) THEN "" ELSE Val(url)
               IN /\ items' = InsertItem(u, u, 0)
                  /\ queue' = Submit(queue, nextId, u)
            /\ nextId' = nextId + 1
            /\ reply' = Answer("track", nextId, 201)
    /\ UNCHANGED <<app, dbfile, call, clock, prices, sent, runs, pollRows, nruns, active,
                   dbLock, handler, web, sched, lastRun>>

\* POST /fetch/<item_id>, the whole handler
ApiFetch(item_id) ==
    /\ app = "tracker"
    /\ LET item == db_read_url(item_id)
       IN IF IsNone(item)
          THEN /\ reply' = Answer("fetch", item_id, 404)
               /\ queue' = queue
          ELSE /\ Submitted < MaxTasks
               /\ queue' = Submit(queue, item_id, Val(item))
               /\ reply' = Answer("fetch", item_id, 202)
    /\ UNCHANGED <<app, dbfile, call, clock, nextId, items, prices, sent, runs, pollRows,
                   nruns, active, dbLock, handler, web, sched, lastRun>>

InitTrackerApi == InitTracker

NextTrackerApi ==
    \/ \E u \in ApiUrls : ApiTrack(u)
    \/ \E id \in 1..MaxTracked : ApiFetch(id)
    \/ PoolStart
    \/ \E t \in BagToSet(active) : DbBegin(t)
    \/ \E t \in BagToSet(active) : DbCommit(t)

SpecTrackerApi == InitTrackerApi /\ [][NextTrackerApi]_vars

(* ================= app/dashboard.py, one step per statement of
   record_price ======================================================== *)

\* SQLite's write lock is held by a connection that has executed its INSERT
\* and not committed
DwSqliteBusy == \E t \in BagToSet(active) : t.pc = "write"

\* a run of fetch_and_analyze in flight carries its arguments, the thread
\* that runs it (by) and, as history, the number of alerts that had been sent
\* when it started (alerts)

\* the poller is inside fetch_and_analyze
DwPollerBusy == \E t \in BagToSet(active) : t.by = "poller"

\* the thread add_item started has fetched the page and calls record_price:
\* get_db_connection()
DwThreadEnter(r) ==
    /\ app = "dashboard"
    /\ r \in runs
    /\ runs' = runs \ {r}
    /\ active' = active (+) SetToBag({[item |-> r.item, target |-> r.target,
                                       last_alert_at |-> r.last_alert_at,
                                       by |-> "thread", pc |-> "get",
                                       alerts |-> Len(sent)]})
    /\ UNCHANGED <<app, dbfile, call, clock, nextId, items, prices, sent, pollRows, nruns,
                   queue, dbLock, handler, web, sched, reply, lastRun>>

\* poll_loop: the next row of the snapshot, as far as record_price
DwPollEnter ==
    /\ app = "dashboard"
    /\ pollRows # << >>
    /\ ~DwPollerBusy
    /\ nruns + Cardinality(runs) + BagCardinality(active) < MaxRuns
    /\ LET r == Head(pollRows)
       IN active' = active (+) SetToBag({[item |-> r.id, target |-> r.target_price,
                                          last_alert_at |-> r.last_alert_at,
                                          by |-> "poller", pc |-> "get",
                                          alerts |-> Len(sent)]})
    /\ pollRows' = Tail(pollRows)
    /\ UNCHANGED <<app, dbfile, call, clock, nextId, items, prices, sent, runs, nruns,
                   queue, dbLock, handler, web, sched, reply, lastRun>>

\* record_price: conn.execute("INSERT INTO prices ..."), which waits while
\* another connection holds SQLite's write lock
DwExecute(t) ==
    /\ app = "dashboard"
    /\ BagIn(t, active)
    /\ t.pc = "get"
    /\ ~DwSqliteBusy
    /\ active' = Replace(active, t, [t EXCEPT !.pc = "write"])
    /\ UNCHANGED <<app, dbfile, call, clock, nextId, items, prices, sent, runs, pollRows,
                   nruns, queue, dbLock, handler, web, sched, reply, lastRun>>

\* record_price: the wait ran out, "database is locked" is raised and the
\* except clause of fetch_and_analyze returns False
DwLocked(t) ==
    /\ app = "dashboard"
    /\ BagIn(t, active)
    /\ t.pc = "get"
    /\ DwSqliteBusy
    /\ active' = active (-) SetToBag({t})
    /\ nruns' = nruns + 1
    /\ UNCHANGED <<app, dbfile, call, clock, nextId, items, prices, sent, runs, pollRows,
                   queue, dbLock, handler, web, sched, reply, lastRun>>

\* record_price: conn.commit(), conn.close(), and the rest of
\* fetch_and_analyze
DwCommit(t) ==
    /\ app = "dashboard"
    /\ BagIn(t, active)
    /\ t.pc = "write"
    /\ active' = active (-) SetToBag({t})
    /\ \E page \in Pages, now \in Later, outcome \in NotifyOutcomes :
         fetch_and_analyze(t.item, t.target, t.last_alert_at, page, now, outcome)
    /\ UNCHANGED <<app, dbfile, call, nextId, runs, pollRows, queue, dbLock, handler, web, sched,
                   reply>>

InitDashboardWrites == InitDashboard

NextDashboardWrites ==
    \/ \E u \in URLs, nm \in Names, t \in Targets : add_item(u, nm, t)
    \/ PollSelect
    \/ DwPollEnter
    \/ \E r \in runs : DwThreadEnter(r)
    \/ \E t \in BagToSet(active) : DwExecute(t)
    \/ \E t \in BagToSet(active) : DwLocked(t)
    \/ \E t \in BagToSet(active) : DwCommit(t)

SpecDashboardWrites == InitDashboardWrites /\ [][NextDashboardWrites]_vars

(* ========= streamlit_app.py, one step per statement of
   check_item_logic, started on an existing DB_FILE ==================== *)

\* a connection has executed its INSERT and not committed: it holds SQLite's
\* write lock
SsBusy == \E t \in BagToSet(active) : t.pc \in {"send", "commit"}

\* the thread by is inside check_item_logic
SsRunning(by) == \E t \in BagToSet(active) : t.by = by

\* the guard of check_item_logic
SsFire(price, target_price, last_alert, now) ==
    /\ ~IsNone(price)
    /\ Val(price) > 0
    /\ target_price > 0
    /\ Val(price) <= target_price
    /\ now - last_alert > ALERT_COOLDOWN_ST

\* check_item_logic: fetch_price_data(url), now = time.time(),
\* get_db_connection()
SsEnter(by, item_id, target_price, last_alert) ==
    /\ ~SsRunning(by)
    /\ nruns + BagCardinality(active) < MaxRuns
    /\ \E page \in Pages, now \in Later :
         LET price == fetch_price_data(page)
         IN /\ active' = active (+) SetToBag({[
                   by |-> by, item |-> item_id, price |-> price, now |-> now,
                   fire |-> SsFire(price, target_price, last_alert, now),
                   pc |-> "insert"]})
            /\ clock' = now
    /\ UNCHANGED <<app, dbfile, call, nextId, items, prices, sent, runs, pollRows, nruns,
                   queue, dbLock, handler, web, sched, reply, lastRun>>

\* start_poller.run: check_item_logic for the next row of the snapshot
SsPollEnter ==
    /\ app = "streamlit"
    /\ pollRows # << >>
    /\ LET r == Head(pollRows)
       IN SsEnter("poller", r.id, r.target_price, r.last_alert_at)

\* main, the Check Now button: check_item_logic(..., 0)
SsCheckNowEnter(id) ==
    /\ app = "streamlit"
    /\ id \in DOMAIN items
    /\ SsEnter("main", id, items[id].target_price, 0)

\* check_item_logic: conn.execute('INSERT INTO prices ...'), which waits
\* while another connection holds the write lock
SsInsert(t) ==
    /\ app = "streamlit"
    /\ BagIn(t, active)
    /\ t.pc = "insert"
    /\ ~SsBusy
    /\ active' = Replace(active, t,
                  [t EXCEPT !.pc = IF t.fire THEN "send" ELSE "commit"])
    /\ UNCHANGED <<app, dbfile, call, clock, nextId, items, prices, sent, runs, pollRows,
                   nruns, queue, dbLock, handler, web, sched, reply, lastRun>>

\* check_item_logic: the wait ran out and the INSERT raises "database is
\* locked"; in the poller the except clause of run ends the round
SsLocked(t) ==
    /\ app = "streamlit"
    /\ BagIn(t, active)
    /\ t.pc = "insert"
    /\ SsBusy
    /\ active' = active (-) SetToBag({t})
    /\ nruns' = nruns + 1
    /\ pollRows' = IF t.by = "poller" THEN << >> ELSE pollRows
    /\ UNCHANGED <<app, dbfile, call, clock, nextId, items, prices, sent, runs,
                   queue, dbLock, handler, web, sched, reply, lastRun>>

\* check_item_logic: send_telegram_message(msg), then the UPDATE of
\* last_alert_at in the open transaction
SsSend(t) ==
    /\ app = "streamlit"
    /\ BagIn(t, active)
    /\ t.pc = "send"
    /\ active' = Replace(active, t, [t EXCEPT !.pc = "commit"])
    /\ \E outcome \in NotifyOutcomes :
         sent' = IF outcome = "ok"
                 THEN Append(sent, [item |-> t.item, at |-> t.now])
                 ELSE sent
    /\ UNCHANGED <<app, dbfile, call, clock, nextId, items, prices, runs, pollRows,
                   nruns, queue, dbLock, handler, web, sched, reply, lastRun>>

\* check_item_logic: conn.commit(), conn.close(), return
SsCommit(t) ==
    /\ app = "streamlit"
    /\ BagIn(t, active)
    /\ t.pc = "commit"
    /\ active' = active (-) SetToBag({t})
    /\ prices' = Append(prices, [item |-> t.item, checked_at |-> t.now,
                                 price |-> StStored(t.price)])
    /\ items' = IF t.fire /\ t.item \in DOMAIN items
                THEN [items EXCEPT ![t.item].last_alert_at = t.now]
                ELSE items
    /\ nruns' = nruns + 1
    /\ pollRows' = IF t.by = "poller" THEN Tail(pollRows) ELSE pollRows
    /\ UNCHANGED <<app, dbfile, call, clock, nextId, sent, runs, queue, dbLock, handler,
                   web, sched, reply, lastRun>>

InitStreamlitSteps ==
    /\ app = "streamlit"
    /\ web = NoPage
    /\ \E n \in 1..MaxStored, target \in Targets : InitRestart(n, target)

NextStreamlitSteps ==
    \/ StPollSelect
    \/ SsPollEnter
    \/ \E id \in 1..MaxStored : SsCheckNowEnter(id)
    \/ \E t \in BagToSet(active) : SsInsert(t)
    \/ \E t \in BagToSet(active) : SsLocked(t)
    \/ \E t \in BagToSet(active) : SsSend(t)
    \/ \E t \in BagToSet(active) : SsCommit(t)

SpecStreamlitSteps == InitStreamlitSteps /\ [][NextStreamlitSteps]_vars

(* ======== the notifiers, the extractors and the storing of a sample,
   each called on its own ================================================ *)

\* candidate matches in one text
MaxMatches == 3

\* a match as float() takes it: None when it does not parse, else its value
Candidates == {None, Some(0), Some(5), Some(10), Some(11), Some(12)}

\* what re.findall can return
MatchLists == UNION {[1..n -> Candidates] : n \in 0..MaxMatches}

\* what the Telegram API does with a request that reaches it
Transports == {"ok", "rejected", "exception"}

\* the outcome of NotifyOutcomes for a notifier that has (or has not) its
\* credentials and a transport that answers so
Outcome(creds, transport) == IF creds THEN transport ELSE "missing"

\* a notifier returns: ok is the first component of the pair it returns, None
\* when it returns nothing; posted says whether requests.post was called
Returned(ok, posted) == [raised |-> FALSE, ok |-> ok, posted |-> posted]

\* requests.post raises and nothing in the notifier catches it
Raises == [raised |-> TRUE, ok |-> None, posted |-> TRUE]

\* dashboard.py, send_telegram_alert
DashNotify(creds, transport) ==
    Returned(Some(send_telegram_alert(Outcome(creds, transport))), creds)

\* streamlit_app.py, send_telegram_message
StNotify(creds, transport) ==
    Returned(Some(send_telegram_message(Outcome(creds, transport))), creds)

\* tracker_worker.py, send_alert: prints and returns nothing
WkNotify(creds, transport) == Returned(None, creds)

\* scripts/telegram_alert.py, send_telegram_alert: no test of BOT_TOKEN and
\* CHAT_ID, no try around requests.post, no return value
ScriptNotify(creds, transport) ==
    IF transport = "exception" THEN Raises ELSE Returned(None, TRUE)

\* the programs that have a notifier
Notifiers == {"dashboard", "streamlit", "worker", "telegram_alert"}

\* the notifier of program is called
CallNotify ==
    /\ app \in Notifiers
    /\ \E creds \in BOOLEAN, transport \in Transports :
         \* the API accepts no message without a valid token
         /\ creds \/ transport # "ok"
         /\ call' = [fn |-> "notify",
                     arg |-> [creds |-> creds, transport |-> transport],
                     out |-> CASE app = "dashboard" -> DashNotify(creds, transport)
                               [] app = "streamlit" -> StNotify(creds, transport)
                               [] app = "worker" -> WkNotify(creds, transport)
                               [] OTHER -> ScriptNotify(creds, transport)]
    /\ UNCHANGED <<app, clock, nextId, items, prices, sent, runs, pollRows,
                   nruns, pool, sched, reply, dbfile, lastRun>>

\* extract_price of dashboard.py or extract_price_from_text of tracker.py is
\* called on the matches of a text
CallExtract ==
    /\ app \in {"dashboard", "tracker"}
    /\ \E matches \in MatchLists :
         call' = [fn |-> "extract", arg |-> matches,
                  out |-> IF app = "dashboard" THEN extract_price(matches)
                          ELSE extract_price_from_text(matches)]
    /\ UNCHANGED <<app, clock, nextId, items, prices, sent, runs, pollRows,
                   nruns, pool, sched, reply, dbfile, lastRun>>

\* streamlit_app.py: what check_item_logic extracts from page, stores for it
\* and main shows for the stored value
StSample(page) ==
    [extracted |-> StExtracted(page),
     stored |-> StStored(fetch_price_data(page)),
     shown |-> StShown(StStored(fetch_price_data(page)))]

\* tracker.py: what fetch_price extracts from page, stores for it and
\* get_price_history reports for the stored value
TrSample(page) ==
    LET price == IF page.kind # "ok" THEN None
                 ELSE extract_price_from_text(Matches(page.tokens))
    IN [extracted |-> price, stored |-> TrStored(price),
        shown |-> HistoryPrice(TrStored(price))]

\* a page is fetched and its sample stored and shown
CallSample ==
    /\ app \in {"streamlit", "tracker"}
    /\ \E page \in Pages :
         call' = [fn |-> "sample", arg |-> page,
                  out |-> IF app = "streamlit" THEN StSample(page)
                          ELSE TrSample(page)]
    /\ UNCHANGED <<app, clock, nextId, items, prices, sent, runs, pollRows,
                   nruns, pool, sched, reply, dbfile, lastRun>>

InitFunctions ==
    /\ app \in Notifiers \cup {"tracker"}
    /\ InitStore
    /\ web = NoPage

NextFunctions ==
    \/ CallNotify
    \/ CallExtract
    \/ CallSample

SpecFunctions == InitFunctions /\ [][NextFunctions]_vars

(* ================= init_db, run on the DB_FILE it finds ================ *)

\* runs of init_db (starts of the program) in a behaviour
MaxStarts == 2

\* the database a connection sees: the file and the rows of its tables
Database ==
    [state |-> dbfile.state, journal |-> dbfile.journal,
     schema |-> dbfile.schema, items |-> items, prices |-> prices]

\* table items as tracker.py creates it
TrackerItemColumns == {"name", "url"}

\* sqlite3.connect(DB_FILE): a file that is not there is created empty
Connect(d) == IF d.state = "absent" THEN [d EXCEPT !.state = "ok"] ELSE d

\* PRAGMA journal_mode=WAL
Wal(d) == [d EXCEPT !.journal = "wal"]

\* a statement that drops the table and creates it again
CreateTableAnew(d, name, cols) ==
    [d EXCEPT !.schema = (name :> cols) @@ d.schema, ![name] = << >>]

\* CREATE TABLE IF NOT EXISTS name (cols)
CreateTableIfNotExists(d, name, cols) ==
    IF name \in DOMAIN d.schema THEN d
    ELSE [d EXCEPT !.schema = (name :> cols) @@ d.schema, ![name] = << >>]

\* ALTER TABLE items ADD COLUMN col REAL DEFAULT 0
AddColumn(d, col) ==
    [d EXCEPT !.schema = ("items" :> (d.schema["items"] \cup {col})) @@ d.schema,
              !.items = [i \in DOMAIN d.items |-> (col :> 0) @@ d.items[i]]]

\* the migration of dashboard.py and streamlit_app.py
Migrate(d) ==
    LET cols == d.schema["items"]
        d1 == IF "target_price" \notin cols THEN AddColumn(d, "target_price")
              ELSE d
    IN IF "last_alert_at" \notin cols THEN AddColumn(d1, "last_alert_at")
       ELSE d1

\* the statements of init_db of program, on a file SQLite can read
InitDbStatements(program, d) ==
    CASE program = "dashboard" ->
           Migrate(CreateTableIfNotExists(
                     CreateTableIfNotExists(Wal(Connect(d)), "items", ItemColumns),
                     "prices", PriceColumns))
      [] program = "streamlit" ->
           Migrate(CreateTableIfNotExists(
                     CreateTableIfNotExists(Connect(d), "items", ItemColumns),
                     "prices", PriceColumns))
      [] program = "worker" ->
           CreateTableIfNotExists(
             CreateTableIfNotExists(Wal(Connect(d)), "items", ItemColumns),
             "prices", PriceColumns)
      [] OTHER ->
           CreateTableIfNotExists(
             CreateTableIfNotExists(Wal(Connect(d)), "items", TrackerItemColumns),
             "prices", PriceColumns)

\* init_db(): on a file that is not a database the first statement raises
\* sqlite3.DatabaseError; streamlit_app.py catches it and shows st.error, in
\* the other programs it leaves init_db
init_db ==
    /\ IF call.fn = "init_db" THEN call.n < MaxStarts ELSE TRUE
    /\ LET n == IF call.fn = "init_db" THEN call.n + 1 ELSE 1
           d == IF dbfile.state = "corrupt" THEN Database
                ELSE InitDbStatements(app, Database)
       IN /\ dbfile' = [state |-> d.state, journal |-> d.journal,
                        schema |-> d.schema]
          /\ items' = d.items
          /\ prices' = d.prices
          /\ call' = [fn |-> "init_db", arg |-> app,
                      out |-> [raised |-> dbfile.state = "corrupt"
                                            /\ app # "streamlit"],
                      n |-> n]
    /\ UNCHANGED <<app, clock, nextId, sent, runs, pollRows, nruns, pool,
                   sched, reply, lastRun>>

\* the columns table items can have in a file an earlier version or another
\* program of the repository has made
ItemSchemas ==
    {TrackerItemColumns, {"name", "url", "target_price"}, ItemColumns}

\* n rows of table items with the columns cols
StoredRows(n, cols) ==
    [i \in 1..n |-> [c \in cols |-> StoredItems(n, 11)[i][c]]]

\* the DB_FILE a program can find when it starts, with the rows of its tables
StartFiles ==
    {[state |-> "absent", journal |-> "delete", schema |-> << >>,
      items |-> << >>, prices |-> << >>],
     \* not a database: nothing in it can be read
     [state |-> "corrupt", journal |-> "delete", schema |-> << >>,
      items |-> << >>, prices |-> << >>]}
    \cup
    {[state |-> "ok", journal |-> j, schema |-> sch,
      items |-> IF "items" \in DOMAIN sch THEN StoredRows(n, sch["items"])
                ELSE << >>,
      prices |-> IF "prices" \in DOMAIN sch /\ sampled
                 THEN <<[item |-> 1, checked_at |-> ALERT_COOLDOWN, price |-> 12]>>
                 ELSE << >>] :
        j \in {"delete", "wal"},
        sch \in {<< >>, "prices" :> PriceColumns}
                \cup {"items" :> cols : cols \in ItemSchemas}
                \cup {("items" :> cols) @@ ("prices" :> PriceColumns) :
                         cols \in ItemSchemas},
        n \in 0..MaxStored,
        sampled \in BOOLEAN}

InitStartup ==
    /\ app \in {"dashboard", "streamlit", "worker", "tracker"}
    /\ \E f \in StartFiles :
         /\ dbfile = [state |-> f.state, journal |-> f.journal,
                      schema |-> f.schema]
         /\ items = f.items
         /\ prices = f.prices
         /\ nextId = Cardinality(DOMAIN f.items) + 1
    /\ clock = Epoch
    /\ sent = << >>
    /\ runs = {}
    /\ pollRows = << >>
    /\ nruns = 0
    /\ queue = << >>
    /\ active = EmptyBag
    /\ dbLock = FALSE
    /\ handler = NoHandler
    /\ web = NoPage
    /\ sched = NoSched
    /\ reply = NoReply
    /\ call = NoCall
    /\ lastRun = NoRun

NextStartup == init_db

SpecStartup == InitStartup /\ [][NextStartup]_vars

(* ========== the start of the background poller, called by the script
   runs of the sessions ================================================== *)

\* sessions whose script run calls main at the same time
MaxCallers == 2

\* the session is inside start_background_poller
Inside(k) == \E t \in BagToSet(active) : t.by = k

\* dashboard.py, main: start_background_poller() is called
SpCall(k) ==
    /\ app = "dashboard"
    /\ ~Inside(k)
    /\ active' = active (+) SetToBag({[by |-> k, pc |-> "test"]})
    /\ UNCHANGED <<app, dbfile, call, clock, nextId, items, prices, sent, runs,
                   pollRows, nruns, queue, dbLock, handler, web, sched, reply,
                   lastRun>>

\* start_background_poller: `if _poller_started: return`
SpTest(t) ==
    /\ app = "dashboard"
    /\ BagIn(t, active)
    /\ t.pc = "test"
    /\ active' = IF sched.started THEN active (-) SetToBag({t})
                 ELSE Replace(active, t, [t EXCEPT !.pc = "set"])
    /\ UNCHANGED <<app, dbfile, call, clock, nextId, items, prices, sent, runs,
                   pollRows, nruns, queue, dbLock, handler, web, sched, reply,
                   lastRun>>

\* start_background_poller: `_poller_started = True`
SpSet(t) ==
    /\ app = "dashboard"
    /\ BagIn(t, active)
    /\ t.pc = "set"
    /\ active' = Replace(active, t, [t EXCEPT !.pc = "start"])
    /\ sched' = [sched EXCEPT !.started = TRUE]
    /\ UNCHANGED <<app, dbfile, call, clock, nextId, items, prices, sent, runs,
                   pollRows, nruns, queue, dbLock, handler, web, reply, lastRun>>

\* start_background_poller: Thread(target=poll_loop, daemon=True).start()
SpStart(t) ==
    /\ app = "dashboard"
    /\ BagIn(t, active)
    /\ t.pc = "start"
    /\ active' = active (-) SetToBag({t})
    /\ sched' = [sched EXCEPT !.threads = @ + 1]
    /\ UNCHANGED <<app, dbfile, call, clock, nextId, items, prices, sent, runs,
                   pollRows, nruns, queue, dbLock, handler, web, reply, lastRun>>

\* streamlit_app.py, main: start_poller(), which st.cache_resource runs once
\* under its lock and answers from the cache afterwards
StStartPoller(k) ==
    /\ app = "streamlit"
    /\ ~sched.started
    /\ sched' = [sched EXCEPT !.started = TRUE, !.threads = @ + 1]
    /\ UNCHANGED <<app, dbfile, call, clock, nextId, items, prices, sent, runs,
                   pollRows, nruns, pool, reply, lastRun>>

InitPollerStart ==
    /\ app \in {"dashboard", "streamlit"}
    /\ web = NoPage
    /\ \E n \in 0..MaxStored, target \in Targets : InitRestart(n, target)

NextPollerStart ==
    \/ \E k \in 1..MaxCallers : SpCall(k)
    \/ \E t \in BagToSet(active) : SpTest(t)
    \/ \E t \in BagToSet(active) : SpSet(t)
    \/ \E t \in BagToSet(active) : SpStart(t)
    \/ \E k \in 1..MaxCallers : StStartPoller(k)

SpecPollerStart == InitPollerStart /\ [][NextPollerStart]_vars

(* ========= scripts/tracker.py, one step per statement of db_write, with
   statements that can fail ============================================== *)

\* a lock that is released by a statement after the write, which a raise
\* skips
ReleasedOnReturn(raised) == raised

\* `with DB_LOCK:` is left, by return or by raise: whether DB_LOCK is held
Released(raised) == FALSE

\* a fetch_price call for item_id is about to call db_write
Waiting(item_id) ==
    \E t \in BagToSet(active) : t.item = item_id /\ t.pc \in {"get", "except"}

\* a fetch_price call for item_id is inside db_write: "write" is the db_write
\* of the try block, "rewrite" that of the except block
Holding(item_id) ==
    \E t \in BagToSet(active) : t.item = item_id /\ t.pc \in {"write", "rewrite"}

\* __main__: init_db(), under DB_LOCK; on a file that is not a database it
\* raises and the program ends
TwInitDb ==
    /\ app = "tracker"
    /\ call = NoCall
    /\ DbLockFree
    /\ LET raised == dbfile.state = "corrupt"
           d == IF raised THEN Database ELSE InitDbStatements(app, Database)
       IN /\ dbfile' = [state |-> d.state, journal |-> d.journal,
                        schema |-> d.schema]
          /\ items' = d.items
          /\ prices' = d.prices
          /\ dbLock' = Released(raised)
          /\ call' = [fn |-> "init_db", arg |-> app,
                      out |-> [raised |-> raised], n |-> 1]
    /\ UNCHANGED <<app, clock, nextId, sent, runs, pollRows, nruns, queue,
                   active, handler, web, sched, reply, lastRun>>

\* poller_loop, started after init_db has returned
TwPoll ==
    /\ call.fn = "init_db"
    /\ ~call.out.raised
    /\ Submitted + Cardinality(DOMAIN items) <= MaxStored
    /\ poller_loop

\* db_write: DB_LOCK is taken, get_db_conn(), conn.cursor()
TwBegin(t) ==
    /\ app = "tracker"
    /\ BagIn(t, active)
    /\ t.pc \in {"get", "except"}
    /\ DbLockFree
    /\ dbLock' = TRUE
    /\ active' = Replace(active, t,
          IF t.pc = "get" /\ web.kind = "ok"
          THEN [t EXCEPT !.pc = "write",
                         !.price = TrStored(extract_price_from_text(
                                               Matches(web.tokens)))]
          ELSE [t EXCEPT !.pc = "rewrite", !.price = -1])
    /\ UNCHANGED <<app, dbfile, call, clock, nextId, items, prices, sent, runs,
                   pollRows, nruns, queue, handler, web, sched, reply, lastRun>>

\* db_write: execute and commit succeed, conn.close(), DB_LOCK is released;
\* fetch_price returns
TwCommit(t) ==
    /\ app = "tracker"
    /\ BagIn(t, active)
    /\ t.pc \in {"write", "rewrite"}
    /\ prices' = Append(prices, [item |-> t.item, checked_at |-> t.ts,
                                 price |-> t.price])
    /\ dbLock' = Released(FALSE)
    /\ active' = active (-) SetToBag({t})
    /\ nruns' = nruns + 1
    /\ UNCHANGED <<app, dbfile, call, clock, nextId, items, sent, runs, pollRows,
                   queue, handler, web, sched, reply, lastRun>>

\* db_write: c.execute or conn.commit raises (the disk is full, another
\* process holds the file); finally: conn.close(), and the with block is
\* left. In the try block of fetch_price the except block follows, in the
\* except block the exception leaves fetch_price
TwFail(t) ==
    /\ app = "tracker"
    /\ BagIn(t, active)
    /\ t.pc \in {"write", "rewrite"}
    /\ dbLock' = Released(TRUE)
    /\ IF t.pc = "write"
       THEN /\ active' = Replace(active, t, [t EXCEPT !.pc = "except"])
            /\ nruns' = nruns
       ELSE /\ active' = active (-) SetToBag({t})
            /\ nruns' = nruns + 1
    /\ UNCHANGED <<app, dbfile, call, clock, nextId, items, prices, sent, runs,
                   pollRows, queue, handler, web, sched, reply, lastRun>>

\* the DB_FILE tracker.py finds and the number of items in it
TwFiles ==
    {[file |-> [state |-> st, journal |-> "delete", schema |-> << >>], n |-> 0] :
        st \in {"absent", "corrupt"}}
    \cup {[file |-> ReadyFile, n |-> n] : n \in 1..MaxStored}

InitTrackerWrites ==
    /\ app = "tracker"
    /\ web \in TrackerPages
    /\ \E f \in TwFiles :
         /\ dbfile = f.file
         /\ items = StoredItems(f.n, 0)
         /\ nextId = f.n + 1
    /\ clock = Epoch
    /\ prices = << >>
    /\ sent = << >>
    /\ runs = {}
    /\ pollRows = << >>
    /\ nruns = 0
    /\ queue = << >>
    /\ active = EmptyBag
    /\ dbLock = FALSE
    /\ handler = NoHandler
    /\ sched = NoSched
    /\ reply = NoReply
    /\ call = NoCall
    /\ lastRun = NoRun

NextTrackerWrites ==
    \/ TwInitDb
    \/ TwPoll
    \/ PoolStart
    \/ \E t \in BagToSet(active) : TwBegin(t)
    \/ \E t \in BagToSet(active) : TwCommit(t)
    \/ \E t \in BagToSet(active) : TwFail(t)

\* the threads of the pool run and every statement of theirs returns: the
\* request and the connection have a timeout
SpecTrackerWrites ==
    InitTrackerWrites /\ [][NextTrackerWrites]_vars
        /\ WF_vars(NextTrackerWrites)

(* ============================== claims ================================ *)

\* the price of the last run is a concrete positive number at or below a
\* positive target
Qualifies(run) ==
    /\ ~IsNone(run.price)
    /\ Val(run.price) > 0
    /\ run.target > 0
    /\ Val(run.price) <= run.target

\* C1: any two alerts sent for the same item are separated by strictly more
\* than the cooldown.
C1_CooldownInvariant ==
    \A i, j \in 1..Len(sent) :
        (i < j /\ sent[i].item = sent[j].item)
            => sent[j].at - sent[i].at > ALERT_COOLDOWN

\* C2: last_alert_at of an item changes only in a step in which the
\* transport accepted a message for that item.
C2_AdvancedOnlyAfterConfirmedSend ==
    [][\A i \in DOMAIN items \cap DOMAIN items' :
          items'[i].last_alert_at # items[i].last_alert_at
              => /\ Len(sent') = Len(sent) + 1
                 /\ sent'[Len(sent')].item = i]_vars

\* C3: a pipeline run sends a notification only if the price is a concrete
\* positive number, the target is positive, price <= target and the item's
\* stored last_alert_at is more than the cooldown before now.
C3_AlertGuard ==
    (lastRun.fire /\ lastRun.here)
        => /\ Qualifies(lastRun)
           /\ lastRun.now - lastRun.stored > ALERT_COOLDOWN

\* C4: when a run's price is positive and at or below a positive target, the
\* cooldown since the stored last_alert_at has elapsed and the transport
\* accepts the message, the alert is sent and the item's last_alert_at is
\* the time of that check.
C4_AlertFires ==
    (/\ lastRun.here
     /\ Qualifies(lastRun)
     /\ lastRun.now - lastRun.stored > ALERT_COOLDOWN
     /\ lastRun.transport = "ok")
        => /\ lastRun.fire
           /\ sent # << >>
           /\ sent[Len(sent)] = [item |-> lastRun.item, at |-> lastRun.now]
           /\ lastRun.item \in DOMAIN items
                => items[lastRun.item].last_alert_at = lastRun.now

\* C4 witness: an alert was sent by a run that met every condition, and the
\* row carries the time of that check
C4_Witness ==
    /\ lastRun.here
    /\ Qualifies(lastRun)
    /\ lastRun.now - lastRun.stored > ALERT_COOLDOWN
    /\ lastRun.transport = "ok"
    /\ lastRun.item \in DOMAIN items
    /\ items[lastRun.item].last_alert_at = lastRun.now
    /\ Len(sent) = 2

\* C5: two pipeline runs in succession for the same item with the same price,
\* target and clock, the first of them without a successful send, take the
\* same decision, and the first leaves last_alert_at as it was.
C5_PolicyIdempotent ==
    [][(/\ nruns' = nruns + 1
        /\ nruns > 0
        /\ lastRun.here /\ lastRun'.here
        /\ lastRun'.item = lastRun.item
        /\ lastRun'.price = lastRun.price
        /\ lastRun'.target = lastRun.target
        /\ lastRun'.now = lastRun.now
        /\ ~(lastRun.fire /\ lastRun.transport = "ok"))
          => /\ lastRun'.fire = lastRun.fire
             /\ lastRun'.stored = lastRun.stored]_vars

\* C6: every fetch attempt appends exactly one sample row for its item; a
\* failed attempt records the "no price" sample (-1), sends nothing and
\* leaves the item in the store.
C6_OneSamplePerFetch ==
    [][nruns' = nruns + 1
          => /\ Len(prices') = Len(prices) + 1
             /\ prices'[Len(prices')].item = lastRun'.item
             /\ IsNone(lastRun'.price)
                  => /\ prices'[Len(prices')].price = -1
                     /\ sent' = sent
                     /\ DOMAIN items' = DOMAIN items]_vars

\* the samples of one item, in insertion order
History(tbl, id) == SelectSeq(tbl, LAMBDA p : p.item = id)

IsPrefix(a, b) == Len(a) <= Len(b) /\ SubSeq(b, 1, Len(a)) = a

\* C7: the history of an item only grows, its samples unchanged, except in a
\* step that deletes the item, after which its history is empty.
C7_AppendOnly ==
    [][\A id \in 1..MaxItems :
          IF id \in DOMAIN items /\ id \notin DOMAIN items'
          THEN History(prices', id) = << >>
          ELSE IsPrefix(History(prices, id), History(prices', id))]_vars

\* C8: every fetch_price call that has returned has persisted its row: the
\* number of rows equals the number of calls completed, however the calls of
\* the pool threads and the /track handler interleave.
C8_NoLostWrites == Len(prices) = nruns

\* C8 witness: every submitted call has completed, and two calls for different
\* items overlapped: the one that started later committed first
C8_Witness ==
    /\ active = EmptyBag
    /\ queue = << >>
    /\ handler = NoHandler
    /\ nruns >= 2
    /\ Len(prices) = nruns
    /\ \E i, j \in 1..Len(prices) :
         /\ i < j
         /\ prices[i].item # prices[j].item
         /\ prices[i].checked_at > prices[j].checked_at

\* the threads that have executed a write and not yet committed it
Writers ==
    BagCardinality([t \in {u \in BagToSet(active) : u.pc = "write"}
                       |-> active[t]])
        + (IF handler = NoHandler THEN 0 ELSE 1)

\* C9: at most one thread is inside a state-mutating store operation, and it
\* holds the writer gate.
C9_WriterGate ==
    /\ Writers <= 1
    /\ Writers = 1 => dbLock

\* C10: at most MAX_WORKERS fetches are in flight, whoever submitted them.
C10_ConcurrencyBound == BagCardinality(active) <= MAX_WORKERS

\* C10 witness: MAX_WORKERS fetches are in flight and a further submission
\* waits in the queue
C10_Witness ==
    /\ BagCardinality(active) = MAX_WORKERS
    /\ queue # << >>

\* the work items of the queue that are for item id
Queued(q, id) == Len(SelectSeq(q, LAMBDA e : e.item = id))

\* C12: of two samples of one item that the poller's fetches produced, the
\* one inserted later has a checked_at at or after the other's.
C12_CheckedAtMonotone ==
    \A i, j \in 1..Len(prices) :
        (i < j /\ prices[i].item = prices[j].item)
            => prices[i].checked_at <= prices[j].checked_at

\* C13: once the stop signal is set no fetch starts, no round submits, and
\* the samples already committed stay in the store.
C13_StopStartsNothing ==
    [][sched.stop
          => /\ BagCardinality(active') <= BagCardinality(active)
             /\ Len(queue') <= Len(queue)
             /\ IsPrefix(prices, prices')]_vars

\* C14: a round of the poller submits exactly one fetch for every item of
\* the table it has read and nothing else, and a fetch starts only by
\* taking the head of the queue: none is started again after it failed.
C14_OneFetchPerItemPerRound ==
    [][/\ Len(queue') > Len(queue)
          => /\ Len(queue') = Len(queue) + Cardinality(DOMAIN items)
             /\ \A id \in DOMAIN items :
                   Queued(queue', id) = Queued(queue, id) + 1
       /\ BagCardinality(active') > BagCardinality(active)
          => /\ queue # << >>
             /\ queue' = Tail(queue)
             /\ active' = active (+) SetToBag({[item |-> Head(queue).item,
                                                ts |-> clock, pc |-> "get",
                                                price |-> 0]})]_vars

\* C14 witness: two rounds over a table of two items have completed, and each
\* item has the two samples of its two fetches
C14_Witness ==
    /\ Cardinality(DOMAIN items) = 2
    /\ queue = << >>
    /\ active = EmptyBag
    /\ \A id \in DOMAIN items : Len(History(prices, id)) = 2

\* C11: while the poller is inside a snapshot, every step leaves the rows
\* still to process as they are or moves on to the next one: no later item
\* of the round is dropped because the item before it failed.
C11_FailureContained ==
    [][pollRows # << >> => pollRows' \in {pollRows, Tail(pollRows)}]_vars

\* C20: when the notifier has been invoked for a fetch, the sample of that
\* fetch is committed in table prices.
C20_CommitBeforeNotify ==
    \A t \in BagToSet(active) :
        (t.pc = "commit" /\ t.fire)
            => \E k \in 1..Len(prices) :
                   /\ prices[k].item = t.item
                   /\ prices[k].checked_at = t.now

\* C17: a /track whose url is missing or empty is answered with an error
\* and changes nothing: no row, no id, no fetch queued; and no row of table
\* items has an empty url.
C17_EmptyUrlRejected ==
    [][/\ (reply'.seq # reply.seq /\ reply'.op = "track" /\ reply'.status # 201)
          => /\ reply'.status = 400
             /\ reply'.id = 0
             /\ UNCHANGED <<items, nextId, queue, active, prices>>
       /\ \A id \in DOMAIN items' : items'[id].url # ""]_vars

\* C17 witness: a /track without url was refused while the store holds an
\* item and its first sample
C17_Witness ==
    /\ reply.op = "track"
    /\ reply.status = 400
    /\ DOMAIN items = {1}
    /\ Len(prices) = 1

\* C18: /fetch/<id> answers 404 and queues nothing when table items has no
\* row with that id, and answers 202 and submits one fetch of the row's url
\* when it has; no sample is ever recorded for an id that is not in items.
C18_TriggerFetch ==
    [][/\ (reply'.seq # reply.seq /\ reply'.op = "fetch")
          => IF reply'.id \in DOMAIN items
             THEN /\ reply'.status = 202
                  /\ queue' = Append(queue, [item |-> reply'.id,
                                             url |-> items[reply'.id].url])
             ELSE /\ reply'.status = 404
                  /\ queue' = queue
       /\ \A k \in 1..Len(prices') : prices'[k].item \in DOMAIN items']_vars

\* C18 witness: a /fetch for an unknown id was answered 404 after a /fetch
\* for item 1 had produced a second sample
C18_Witness ==
    /\ reply.op = "fetch"
    /\ reply.status = 404
    /\ reply.id \notin DOMAIN items
    /\ Len(History(prices, 1)) >= 2

\* C19: the answer of GET /prices has one row for every item of the store
\* and no other row, and the row of an item carries the item's last inserted
\* sample, or no sample when the item has none.
C19_Snapshot ==
    LET answer == list_prices
    IN /\ Len(answer) = Cardinality(DOMAIN items)
       /\ \A id \in DOMAIN items :
            LET h == History(prices, id)
                expected ==
                    IF h = << >>
                    THEN [id |-> id, last_price |-> None, last_checked |-> None]
                    ELSE [id |-> id, last_price |-> Some(h[Len(h)].price),
                          last_checked |-> Some(h[Len(h)].checked_at)]
            IN \E r \in 1..Len(answer) : answer[r] = expected

\* C19 witness: item 1 has two samples taken at different times and item 2
\* has none yet
C19_Witness ==
    /\ DOMAIN items = {1, 2}
    /\ Len(History(prices, 1)) = 2
    /\ History(prices, 1)[1].checked_at # History(prices, 1)[2].checked_at
    /\ History(prices, 2) = << >>
    /\ Len(list_prices) = 2

\* C15: the wait after a round is max(0, interval - elapsed), elapsed being
\* the time the round took.
C15_IntervalDiscipline ==
    [][(sched.pc = "sleep" /\ sched'.pc = "select")
          => sched'.wait = IF POLL_DELAY - sched.elapsed > 0
                           THEN POLL_DELAY - sched.elapsed ELSE 0]_vars

\* C16: whatever is raised inside a round, the loop is at the top of a new
\* round again and again, and inside a round again and again.
C16_KeepsTicking ==
    /\ []<>(sched.pc = "select")
    /\ []<>(sched.pc = "items" \/ sched.pc = "sleep")

\* C16 witness: after a sleep a further round has read its two rows, though
\* the fetches have started to fail
C16_Witness ==
    /\ sched.pc = "items"
    /\ sched.wait = POLL_DELAY
    /\ nruns >= MaxRuns
    /\ Len(pollRows) = 2

\* C24: a pipeline run leaves the name, url and target_price of every row
\* as they were, and changes last_alert_at only when its alert guard let the
\* notification through.
C24_PipelineFrame ==
    [][nruns' = nruns + 1
          => \A i \in DOMAIN items \cap DOMAIN items' :
                /\ items'[i].name = items[i].name
                /\ items'[i].url = items[i].url
                /\ items'[i].target_price = items[i].target_price
                /\ items'[i].last_alert_at # items[i].last_alert_at
                     => (lastRun'.fire /\ lastRun'.item = i)]_vars

\* C28: every sample of table prices belongs to an item that is in table
\* items.
C28_ReferentialIntegrity ==
    \A k \in 1..Len(prices) : prices[k].item \in DOMAIN items

\* C29: for every item at most one fetch is queued or running.
C29_OneFetchInFlight ==
    \A id \in DOMAIN items : Queued(queue, id) + Running(id) <= 1

\* C30: for every item that has samples, the sample that GET /prices pairs
\* with it (the greatest row id) is one that GET /prices/<id> can return
\* first (the greatest checked_at).
C30_LatestAgree ==
    \A id \in DOMAIN items :
        \A k \in LatestIds : prices[k].item = id => k \in HistoryFirst(id)

\* C27: of two runs of fetch_and_analyze for the same item that overlap, at
\* most one sends a notification: a run that sends finds no notification for
\* its item sent since it started.
C27_AtomicAlertCheck ==
    [][\A u \in BagToSet(active) :
          (/\ u.pc = "write"
           /\ active' = active (-) SetToBag({u})
           /\ Len(sent') = Len(sent) + 1)
              => \A k \in 1..Len(sent) :
                    k > u.alerts => sent[k].item # u.item]_vars

\* C21: a notifier returns to its caller with an ok/detail result whatever
\* the transport does, and without credentials it does not call the
\* transport.
C21_NotifierNeverRaises ==
    call.fn = "notify"
        => /\ ~call.out.raised
           /\ ~IsNone(call.out.ok)
           /\ ~call.arg.creds => ~call.out.posted

\* C22: the stored price of a sample is the extracted value, or -1 when
\* nothing was extracted, and it is shown as "no price" exactly when nothing
\* was extracted: an extracted 0 is stored and shown as 0.
C22_SentinelDistinct ==
    call.fn = "sample"
        => /\ call.out.stored = IF IsNone(call.out.extracted) THEN -1
                                ELSE Val(call.out.extracted)
           /\ IsNone(call.out.shown) <=> IsNone(call.out.extracted)

\* C23: the extractor returns the first match that parses and is > 10, and
\* None when no match is so.
C23_FirstPlausibleMatch ==
    call.fn = "extract"
        => LET good == {k \in 1..Len(call.arg) :
                          ~IsNone(call.arg[k]) /\ Val(call.arg[k]) > 10}
           IN IF good = {} THEN IsNone(call.out)
              ELSE call.out = call.arg[CHOOSE k \in good :
                                         \A j \in good : k <= j]

\* C25: a run of init_db keeps every row of items and prices, each with the
\* values it had in the columns it had, and a run that follows another run
\* changes nothing in DB_FILE.
C25_InitDbIdempotent ==
    [][(call'.fn = "init_db" /\ call' # call)
          => /\ DOMAIN items' = DOMAIN items
             /\ \A i \in DOMAIN items :
                   \A c \in DOMAIN items[i] : items'[i][c] = items[i][c]
             /\ prices' = prices
             /\ call.fn = "init_db"
                  => (dbfile' = dbfile /\ items' = items)]_vars

\* C25 witness: init_db has run twice on a file that held two items without
\* the alert columns and a sample, and the rows are there, migrated
C25_Witness ==
    /\ call.fn = "init_db"
    /\ call.n = 2
    /\ ~call.out.raised
    /\ DOMAIN items = {1, 2}
    /\ \A i \in DOMAIN items :
         /\ items[i].url = "u"
         /\ items[i].target_price = 0
         /\ items[i].last_alert_at = 0
    /\ Len(prices) = 1

\* C26: after init_db the store can be queried and has both tables: a file
\* that could not be read has been replaced by an empty database.
C26_CorruptionRecovery ==
    call.fn = "init_db"
        => /\ dbfile.state = "ok"
           /\ {"items", "prices"} \subseteq DOMAIN dbfile.schema
           /\ ~call.out.raised

\* C31: however often and from however many sessions the start of the poller
\* is called, at most one poll loop thread is started, and a call that has
\* returned leaves one started.
C31_SinglePoller ==
    /\ sched.threads <= 1
    /\ (sched.started /\ active = EmptyBag) => sched.threads = 1

\* C32: DB_LOCK is held exactly while a thread is inside db_write, whether
\* its statement succeeds or fails, and every fetch that is about to write
\* gets inside db_write.
C32_GateReleased ==
    /\ [](dbLock <=> \E t \in BagToSet(active) : t.pc \in {"write", "rewrite"})
    /\ \A id \in 1..MaxStored : Waiting(id) ~> Holding(id)

\* C32 witness: the db_write of a fetch has failed and the fetch is inside
\* its second db_write, holding DB_LOCK, while the fetch of another item is
\* about to write
C32_Witness ==
    /\ web.kind = "ok"
    /\ dbLock
    /\ \E t, u \in BagToSet(active) :
         /\ t.pc = "rewrite"
         /\ u.pc = "get"
         /\ u.item # t.item

====
